---- MODULE Spec2Model ----
(***************************************************************************)
(* Model of audio/2.0/default/StreamIn.cpp: the stream controller          *)
(* (StreamIn::prepareForReading, StreamIn::close), the capture thread      *)
(* (ReadThread::readyToRun, ReadThread::threadLoop) and the remote         *)
(* consumer of the two message queues and of the event-flag word.          *)
(***************************************************************************)
EXTENDS Integers, Sequences, FiniteSets, TLC

(***************************************************************************)
(* Bounds of the model.                                                    *)
(***************************************************************************)
MaxCapacity == 2

(***************************************************************************)
(* Program constants.                                                      *)
(***************************************************************************)
StatusMQDepth == 1

\* A null pointer.
NULL == [null |-> TRUE]
NOT_FULL == "NOT_FULL"
NOT_EMPTY == "NOT_EMPTY"

\* Negative status codes the device read can return.
DeviceErrors == {-22, -19, -38, -1}

\* A frameSize/framesCount pair whose 32-bit product wraps around.
OverflowInput == <<1431655766, 3>>

\* The frameSize/framesCount pairs tried: those asking for a data queue of at
\* most MaxCapacity bytes, and the wrapping pair.
FrameInputs ==
    {in \in (1..MaxCapacity) \X (1..MaxCapacity) : in[1] * in[2] <= MaxCapacity}
        \cup {OverflowInput}

VARIABLES
    mIsClosed,          \* StreamIn::mIsClosed
    mDataMQ,            \* StreamIn::mDataMQ: NULL or [capacity, used]
    mStatusMQ,          \* StreamIn::mStatusMQ: NULL or [q], the sequence of queued records
    mEfGroup,           \* StreamIn::mEfGroup: "null", "valid" or "dangling"
    efWord,             \* event-flag word of the data queue: the set of bits set
    mStopReadThread,    \* StreamIn::mStopReadThread
    mReadThread,        \* StreamIn::mReadThread is non-null
    tpc,                \* position of the capture thread mReadThread points to
    orphanThreads,      \* live capture threads mReadThread no longer points to
    availToWrite,       \* threadLoop local
    readBytes,          \* the size passed to the device read of this iteration
    readResult,         \* threadLoop local
    status,             \* threadLoop local: the ReadStatus record, or NULL
    closeInputStreamCalls,  \* calls of mDevice->close_input_stream
    ctl,                \* position of the controller's calling thread
    lastCall,           \* the controller call that returned last
    lastResult,         \* its Result
    lastDesc,           \* whether it handed out non-empty queue descriptors
    closeCalls,         \* number of close() calls made so far: 0, 1, or 2 for more
    stoppedInWait,      \* close() stored the stop flag while the thread was in the wait
    readsSinceStop,     \* device reads issued since the stop flag was stored: 0, 1, or 2 for more
    life                \* the StreamIn object: "alive", "destroying" or "destroyed"

threadLocals == <<availToWrite, readBytes, readResult, status>>
threadVars == <<tpc, availToWrite, readBytes, readResult, status>>
streamVars == <<mIsClosed, mDataMQ, mStatusMQ, mEfGroup, mStopReadThread, mReadThread,
                orphanThreads, closeInputStreamCalls>>
callVars == <<ctl, lastCall, lastResult, lastDesc, closeCalls>>
stopObs == <<stoppedInWait, readsSinceStop>>
vars == <<mIsClosed, mDataMQ, mStatusMQ, mEfGroup, efWord, mStopReadThread, mReadThread,
          tpc, orphanThreads, availToWrite, readBytes, readResult, status,
          closeInputStreamCalls, ctl, lastCall, lastResult, lastDesc, closeCalls,
          stoppedInWait, readsSinceStop, life>>

\* Positions at which the capture thread is alive.
ThreadAlive == {"ready", "top", "wait", "avail", "read", "writeData", "writeStatus", "wake"}

LiveThreads == orphanThreads + (IF tpc \in ThreadAlive THEN 1 ELSE 0)

\* ~StreamIn has run while the capture thread is still in its loop: the stop
\* flag, both queues and the event-flag word the thread points to are freed.
UseAfterFree == life = "destroyed" /\ tpc \in ThreadAlive

\* What an access of the thread to a member of the stream can give: what the
\* member holds, or, once it is freed, any of the other values as well.
Loaded(value, others) == IF UseAfterFree THEN {value} \cup others ELSE {value}

\* An access to freed memory can also end the process.
Faulted == UseAfterFree /\ tpc' = "fault"

\* close() has handed the device stream to close_input_stream, which releases
\* it; the capture thread keeps its own pointer to it.
StreamReleased == closeInputStreamCalls > 0

(***************************************************************************)
(* Message queue and event flag operations.                                *)
(***************************************************************************)
availableToWrite(q) == q.capacity - q.used

\* MessageQueue::write: all or nothing.
CanWrite(q, n) == n <= availableToWrite(q)
write(q, n) == IF CanWrite(q, n) THEN [q EXCEPT !.used = @ + n] ELSE q

StatusCanWrite(sq) == Len(sq.q) < StatusMQDepth
statusWrite(sq, rec) == IF StatusCanWrite(sq) THEN [sq EXCEPT !.q = Append(@, rec)] ELSE sq

\* Stream::analyzeStatus: maps a device status code to a Result.
analyzeStatus(code) ==
    CASE code = 0 -> "OK"
      [] code = -22 -> "INVALID_ARGUMENTS"
      [] code = -19 -> "NOT_INITIALIZED"
      [] code = -38 -> "NOT_SUPPORTED"
      [] OTHER -> "INVALID_STATE"

\* x * y modulo 2^16 and x * y divided by 2^16, for x, y below 2^16, computed on
\* 8-bit halves of x so that every intermediate value stays below 2^31.
MulLow16(x, y) == ((((x \div 256) * y) % 256) * 256 + (x % 256) * y) % 65536
MulHigh16(x, y) ==
    LET xh == (x \div 256) * y
        xl == (x % 256) * y
    IN  (xh \div 256) + (((xh % 256) * 256 + xl) \div 65536)

\* a * b in uint32_t arithmetic (modulo 2^32), on 16-bit halves.
MulUInt32(a, b) ==
    LET al == a % 65536
        ah == a \div 65536
        bl == b % 65536
        bh == b \div 65536
        lo == MulLow16(al, bl)
        hi == (MulHigh16(al, bl) + MulLow16(ah, bl) + MulLow16(al, bh)) % 65536
    IN  hi * 65536 + lo

\* new DataMQ(frameSize * framesCount, ...): the capacity requested.
RequestedCapacity(frameSize, framesCount) == MulUInt32(frameSize, framesCount)

(***************************************************************************)
(* StreamIn::StreamIn                                                      *)
(***************************************************************************)
Init ==
    /\ mIsClosed = FALSE
    /\ mDataMQ = NULL
    /\ mStatusMQ = NULL
    /\ mEfGroup = "null"
    /\ efWord = {}
    /\ mStopReadThread = FALSE
    /\ mReadThread = FALSE
    /\ tpc = "none"
    /\ orphanThreads = 0
    /\ availToWrite = 0
    /\ readBytes = 0
    /\ readResult = 0
    /\ status = NULL
    /\ closeInputStreamCalls = 0
    /\ ctl = "idle"
    /\ lastCall = "none"
    /\ lastResult = "none"
    /\ lastDesc = FALSE
    /\ closeCalls = 0
    /\ stoppedInWait = FALSE
    /\ readsSinceStop = 0
    /\ life = "alive"

(***************************************************************************)
(* StreamIn::prepareForReading                                             *)
(***************************************************************************)
SessionExistsByClosed == mIsClosed
SessionExistsNever == FALSE
\* if (mDataMQ)
SessionExists == mDataMQ # NULL

QueuesInvalidDataOnly(dataValid, statusValid) == ~dataValid
\* if (!tempDataMQ->isValid() || !tempStatusMQ->isValid())
QueuesInvalid(dataValid, statusValid) == ~dataValid \/ ~statusValid

StopFlagResetOnLaunch(stop) == FALSE
\* The new ReadThread is handed &mStopReadThread, whose value is left as it is.
StopFlagOnLaunch(stop) == stop

Returned(call, result, desc) ==
    /\ lastCall' = call
    /\ lastResult' = result
    /\ lastDesc' = desc

prepareForReading(frameSize, framesCount, dataValid, statusValid, efCreated, runOk) ==
    /\ ctl = "idle"
    /\ IF SessionExists
       THEN /\ Returned("prepareForReading", "INVALID_STATE", FALSE)
            /\ UNCHANGED <<streamVars, efWord, threadVars>>
       ELSE IF QueuesInvalid(dataValid, statusValid)
       THEN /\ Returned("prepareForReading", "INVALID_ARGUMENTS", FALSE)
            /\ UNCHANGED <<streamVars, efWord, threadVars>>
       ELSE IF ~efCreated
       THEN /\ mEfGroup' = "null"
            /\ Returned("prepareForReading", "INVALID_ARGUMENTS", FALSE)
            /\ UNCHANGED <<mIsClosed, mDataMQ, mStatusMQ, mStopReadThread, mReadThread,
                           orphanThreads, closeInputStreamCalls, efWord, threadVars>>
       ELSE /\ mReadThread' = TRUE
            /\ orphanThreads' = orphanThreads + (IF tpc \in ThreadAlive THEN 1 ELSE 0)
            /\ availToWrite' = 0
            /\ readBytes' = 0
            /\ readResult' = 0
            /\ status' = NULL
            /\ IF runOk
               THEN /\ tpc' = "ready"
                    /\ mEfGroup' = "valid"
                    /\ mDataMQ' = [capacity |-> RequestedCapacity(frameSize, framesCount),
                                   used |-> 0]
                    /\ mStatusMQ' = [q |-> <<>>]
                    /\ efWord' = {}
                    /\ Returned("prepareForReading", "OK", TRUE)
               ELSE /\ tpc' = "none"
                    /\ mEfGroup' = "dangling"
                    /\ Returned("prepareForReading", "INVALID_ARGUMENTS", FALSE)
                    /\ UNCHANGED <<mDataMQ, mStatusMQ, efWord>>
            /\ mStopReadThread' = StopFlagOnLaunch(mStopReadThread)
            /\ UNCHANGED <<mIsClosed, closeInputStreamCalls>>
    /\ UNCHANGED <<ctl, closeCalls, stopObs, life>>

\* The ways the steps of prepareForReading can turn out: whether the data queue
\* and the status queue are valid, the event flag is created, the thread runs.
PrepareOutcomes ==
    {<<FALSE, TRUE, TRUE, TRUE>>, <<TRUE, FALSE, TRUE, TRUE>>, <<TRUE, TRUE, FALSE, TRUE>>,
     <<TRUE, TRUE, TRUE, FALSE>>, <<TRUE, TRUE, TRUE, TRUE>>}

PrepareForReading ==
    /\ life = "alive"
    /\ \E in \in FrameInputs, o \in PrepareOutcomes :
          prepareForReading(in[1], in[2], o[1], o[2], o[3], o[4])

(***************************************************************************)
(* StreamIn::close                                                         *)
(***************************************************************************)
AlreadyClosedNever == FALSE
\* if (mIsClosed)
AlreadyClosed == mIsClosed

closeTailNoRelease ==
    /\ mEfGroup' = "null"
    /\ closeInputStreamCalls' = closeInputStreamCalls
    /\ ctl' = "idle"
    /\ Returned("close", "OK", FALSE)
\* The tail of close(): delete the event flag, release the device stream.
closeTail ==
    /\ mEfGroup' = "null"
    /\ closeInputStreamCalls' = closeInputStreamCalls + 1
    /\ ctl' = "idle"
    /\ Returned("close", "OK", FALSE)

\* close() up to requestExitAndWait, or to its end when there is no thread.
close ==
    /\ ctl = "idle"
    /\ closeCalls' = IF closeCalls < 2 THEN closeCalls + 1 ELSE closeCalls
    /\ IF AlreadyClosed
       THEN /\ Returned("close", "INVALID_STATE", FALSE)
            /\ UNCHANGED <<streamVars, efWord, threadVars, ctl, stopObs>>
       ELSE /\ mIsClosed' = TRUE
            /\ IF mReadThread
               THEN /\ mStopReadThread' = TRUE
                    /\ stoppedInWait' = (tpc = "wait")
                    /\ ctl' = "joining"
                    /\ UNCHANGED <<mEfGroup, closeInputStreamCalls, lastCall, lastResult,
                                   lastDesc, readsSinceStop>>
               ELSE /\ closeTail
                    /\ UNCHANGED <<mStopReadThread, stopObs>>
            /\ UNCHANGED <<mDataMQ, mStatusMQ, mReadThread, orphanThreads, efWord,
                           threadVars>>

\* requestExitAndWait returns once the thread has left threadLoop.
closeJoined ==
    /\ ctl = "joining"
    /\ tpc \notin ThreadAlive
    /\ closeTail
    /\ life' = IF life = "destroying" THEN "destroyed" ELSE life
    /\ UNCHANGED <<mIsClosed, mDataMQ, mStatusMQ, mStopReadThread, mReadThread,
                   orphanThreads, efWord, threadVars, closeCalls, stopObs>>

\* close() called by the client.
Close ==
    /\ life = "alive"
    /\ close
    /\ UNCHANGED life

\* StreamIn::~StreamIn: close(), then the members go, the two queues and the
\* stop flag with them; it ends in closeJoined when close() has a thread to
\* wait for.  A thread that close() did not stop keeps pointing at the freed
\* members (UseAfterFree).
Destructor ==
    /\ life = "alive"
    /\ close
    /\ life' = IF ctl' = "joining" THEN "destroying" ELSE "destroyed"

(***************************************************************************)
(* ReadThread                                                              *)
(***************************************************************************)
readyToRun ==
    /\ tpc = "ready"
    /\ tpc' = "top"
    /\ UNCHANGED <<streamVars, efWord, threadLocals, callVars, stopObs, life>>

StopRequestedNever == FALSE
\* while(!std::atomic_load_explicit(mStop, std::memory_order_acquire))
StopRequested == mStopReadThread

threadLoopCheckStop ==
    /\ tpc = "top"
    /\ \/ \E stop \in Loaded(StopRequested, BOOLEAN) :
              tpc' = IF stop THEN "done" ELSE "wait"
       \/ Faulted
    /\ UNCHANGED <<streamVars, efWord, threadLocals, callVars, stopObs, life>>

\* The wait is given a timeout of NS_PER_SEC, so it returns without a wake too.
WaitTimesOut == TRUE

\* if (!(efState & NOT_FULL)) continue;
NothingToDo(efState) == NOT_FULL \notin efState

\* mEfGroup->wait(NOT_FULL, &efState, NS_PER_SEC), which takes the NOT_FULL bit
\* out of the word when it is set, and the test of efState.  On the freed word
\* the wait can also leave the word the consumer sees as it is.
threadLoopWait ==
    /\ tpc = "wait"
    /\ NOT_FULL \in efWord \/ WaitTimesOut
    /\ \/ /\ efWord' \in Loaded(efWord \ {NOT_FULL}, {efWord})
          /\ \E efState \in Loaded(efWord \cap {NOT_FULL}, SUBSET {NOT_FULL}) :
                 tpc' = IF NothingToDo(efState) THEN "top" ELSE "avail"
       \/ Faulted /\ UNCHANGED efWord
    /\ UNCHANGED <<streamVars, threadLocals, callVars, stopObs, life>>

\* The sizes a read of the counters of a freed data queue can give.  A size
\* above the capacity is kept as AboveCapacity, whichever it is.
AboveCapacity(q) == q.capacity + 1
FreedSizes(q) == 0..AboveCapacity(q)

\* const size_t availToWrite = mDataMQ->availableToWrite();
threadLoopAvail ==
    /\ tpc = "avail"
    /\ \/ /\ availToWrite' \in Loaded(availableToWrite(mDataMQ), FreedSizes(mDataMQ))
          /\ tpc' = "read"
       \/ Faulted /\ UNCHANGED availToWrite
    /\ UNCHANGED <<streamVars, efWord, readBytes, readResult, status, callVars, stopObs, life>>

\* The size passed to mStream->read.
ReadSize(avail, q) == avail

\* What the device can return for a read of n bytes: an error code, a count up
\* to n, or a count above n from a device that breaks the contract of read.
ReadResults(n) == DeviceErrors \cup (0..n) \cup {n + 1}

\* The read is undefined when it goes through the pointer to a device stream
\* that close_input_stream has released, or asks for more bytes than mBuffer,
\* which is as large as the data queue, can take.
ReadUndefined(n, q) == StreamReleased \/ n > q.capacity

\* ssize_t readResult = mStream->read(mStream, &mBuffer[0], availToWrite);
\* an undefined read returns any of the results as well, or ends the process.
threadLoopRead ==
    /\ tpc = "read"
    /\ readBytes' = ReadSize(availToWrite, mDataMQ)
    /\ readsSinceStop' = IF mStopReadThread /\ readsSinceStop < 2
                       THEN readsSinceStop + 1
                       ELSE readsSinceStop
    /\ \/ /\ readResult' \in ReadResults(readBytes')
          /\ tpc' = "writeData"
       \/ /\ ReadUndefined(readBytes', mDataMQ)
          /\ tpc' = "fault"
          /\ UNCHANGED readResult
    /\ UNCHANGED <<streamVars, efWord, availToWrite, status, callVars, stoppedInWait, life>>

\* The ReadStatus record built for a device read result.
ReadStatus(result) ==
    IF result >= 0
    THEN [retval |-> "OK", read |-> result]
    ELSE [retval |-> analyzeStatus(result), read |-> 0]

\* The data queue after the branch on readResult.
DataAfterRead(q, result) == IF result >= 0 THEN write(q, result) ELSE q

threadLoopWriteData ==
    /\ tpc = "writeData"
    /\ \/ /\ mDataMQ' \in Loaded(DataAfterRead(mDataMQ, readResult), {mDataMQ})
          /\ status' = ReadStatus(readResult)
          /\ tpc' = "writeStatus"
       \/ readResult >= 0 /\ Faulted /\ UNCHANGED <<mDataMQ, status>>
    /\ UNCHANGED <<mIsClosed, mStatusMQ, mEfGroup, mStopReadThread, mReadThread,
                   orphanThreads, closeInputStreamCalls, efWord, availToWrite, readBytes,
                   readResult, callVars, stopObs, life>>

\* Where the thread goes after mStatusMQ->write, written or not.
AfterStatusWrite(written) == "wake"

threadLoopWriteStatus ==
    /\ tpc = "writeStatus"
    /\ \/ /\ mStatusMQ' \in Loaded(statusWrite(mStatusMQ, status), {mStatusMQ})
          /\ tpc' = AfterStatusWrite(mStatusMQ' # mStatusMQ)
       \/ Faulted /\ UNCHANGED mStatusMQ
    /\ UNCHANGED <<mIsClosed, mDataMQ, mEfGroup, mStopReadThread, mReadThread,
                   orphanThreads, closeInputStreamCalls, efWord, threadLocals, callVars,
                   stopObs, life>>

\* The bits mEfGroup->wake sets at the end of an iteration.
WakeBits == {NOT_EMPTY}

threadLoopWake ==
    /\ tpc = "wake"
    /\ \/ /\ efWord' \in Loaded(efWord \cup WakeBits, {efWord})
          /\ tpc' = "top"
          /\ availToWrite' = 0
          /\ readBytes' = 0
          /\ readResult' = 0
          /\ status' = NULL
       \/ Faulted /\ UNCHANGED <<efWord, threadLocals>>
    /\ UNCHANGED <<streamVars, callVars, stopObs, life>>

threadLoop ==
    \/ threadLoopCheckStop
    \/ threadLoopWait
    \/ threadLoopAvail
    \/ threadLoopRead
    \/ threadLoopWriteData
    \/ threadLoopWriteStatus
    \/ threadLoopWake

(***************************************************************************)
(* The remote consumer, holding the descriptors of both queues.            *)
(***************************************************************************)
ConsumerWakeNotFull ==
    /\ mDataMQ # NULL
    /\ NOT_FULL \notin efWord
    /\ efWord' = efWord \cup {NOT_FULL}
    /\ UNCHANGED <<streamVars, threadVars, callVars, stopObs, life>>

ConsumerWaitNotEmpty ==
    /\ mDataMQ # NULL
    /\ NOT_EMPTY \in efWord
    /\ efWord' = efWord \ {NOT_EMPTY}
    /\ UNCHANGED <<streamVars, threadVars, callVars, stopObs, life>>

ConsumerReadData ==
    /\ mDataMQ # NULL
    /\ \E n \in 1..mDataMQ.used : mDataMQ' = [mDataMQ EXCEPT !.used = @ - n]
    /\ UNCHANGED <<mIsClosed, mStatusMQ, mEfGroup, mStopReadThread, mReadThread,
                   orphanThreads, closeInputStreamCalls, efWord, threadVars, callVars, stopObs, life>>

ConsumerReadStatus ==
    /\ mStatusMQ # NULL
    /\ mStatusMQ.q # <<>>
    /\ mStatusMQ' = [mStatusMQ EXCEPT !.q = Tail(@)]
    /\ UNCHANGED <<mIsClosed, mDataMQ, mEfGroup, mStopReadThread, mReadThread,
                   orphanThreads, closeInputStreamCalls, efWord, threadVars, callVars, stopObs, life>>

Next ==
    \/ PrepareForReading
    \/ Close
    \/ Destructor
    \/ closeJoined
    \/ readyToRun
    \/ threadLoopCheckStop
    \/ threadLoopWait
    \/ threadLoopAvail
    \/ threadLoopRead
    \/ threadLoopWriteData
    \/ threadLoopWriteStatus
    \/ threadLoopWake
    \/ ConsumerWakeNotFull
    \/ ConsumerWaitNotEmpty
    \/ ConsumerReadData
    \/ ConsumerReadStatus

Spec == Init /\ [][Next]_vars

\* The scheduler runs the capture thread, every event-flag wait returns (by a
\* wake or by its timeout), every device read returns, and requestExitAndWait
\* returns once the thread has exited.
Fairness ==
    /\ WF_vars(readyToRun)
    /\ WF_vars(threadLoopCheckStop)
    /\ WF_vars(threadLoopWait)
    /\ WF_vars(threadLoopAvail)
    /\ WF_vars(threadLoopRead)
    /\ WF_vars(threadLoopWriteData)
    /\ WF_vars(threadLoopWriteStatus)
    /\ WF_vars(threadLoopWake)
    /\ WF_vars(closeJoined)

FairSpec == Spec /\ Fairness

\* The same program with a consumer that never drains the status queue.
NextStalledStatus ==
    \/ PrepareForReading
    \/ Close
    \/ Destructor
    \/ closeJoined
    \/ readyToRun
    \/ threadLoopCheckStop
    \/ threadLoopWait
    \/ threadLoopAvail
    \/ threadLoopRead
    \/ threadLoopWriteData
    \/ threadLoopWriteStatus
    \/ threadLoopWake
    \/ ConsumerWakeNotFull
    \/ ConsumerWaitNotEmpty
    \/ ConsumerReadData

StalledStatusSpec == Init /\ [][NextStalledStatus]_vars /\ Fairness

\* The same program with a consumer that never reads the data queue, so that
\* the bytes in the data queue are all the bytes the capture thread enqueued.
NextUndrainedData ==
    \/ PrepareForReading
    \/ Close
    \/ Destructor
    \/ closeJoined
    \/ readyToRun
    \/ threadLoopCheckStop
    \/ threadLoopWait
    \/ threadLoopAvail
    \/ threadLoopRead
    \/ threadLoopWriteData
    \/ threadLoopWriteStatus
    \/ threadLoopWake
    \/ ConsumerWakeNotFull
    \/ ConsumerWaitNotEmpty
    \/ ConsumerReadStatus

UndrainedDataSpec == Init /\ [][NextUndrainedData]_vars

TypeOK ==
    /\ mIsClosed \in BOOLEAN
    /\ mStopReadThread \in BOOLEAN
    /\ mReadThread \in BOOLEAN
    /\ mEfGroup \in {"null", "valid", "dangling"}
    /\ efWord \subseteq {NOT_FULL, NOT_EMPTY}
    /\ tpc \in ThreadAlive \cup {"none", "done", "fault"}
    /\ ctl \in {"idle", "joining"}
    /\ mDataMQ # NULL => mDataMQ.used \in 0..mDataMQ.capacity
    /\ mStatusMQ # NULL => Len(mStatusMQ.q) <= StatusMQDepth
    /\ readsSinceStop \in 0..2
    /\ life \in {"alive", "destroying", "destroyed"}

(***************************************************************************)
(* Properties.                                                             *)
(***************************************************************************)

\* Steps of the capture thread that touch a queue, the event flag or the device.
ThreadActs ==
    /\ tpc \in {"wait", "read", "writeData", "writeStatus", "wake"}
    /\ tpc' # tpc

\* A call of close() has returned OK at some point in the past.
CloseReturned == mIsClosed /\ ctl = "idle"

\* C1: once close() has returned on the stream, the capture thread performs no
\* further event-flag wait or wake, device read, data-queue write or
\* status-queue write, whatever calls came before or come after.
C1_NoThreadActionAfterClose == [][CloseReturned => ~ThreadActs]_vars

\* C2 as stated: when the stop flag is stored while the capture thread is blocked
\* in the event-flag wait, the thread issues no further device read.
C2_NoReadAfterStopInWait == stoppedInWait => readsSinceStop = 0

\* C2 as amended: when the stop flag is stored while the capture thread is
\* blocked in the event-flag wait, a wait that returns without NOT_FULL sends
\* the thread to the stop check, which ends the loop with no device read; a wait
\* that returns with NOT_FULL is followed by one more iteration, so at most one
\* further device read is issued, and the stop check after it ends the loop.
C2_AtMostOneReadAfterStopInWait ==
    /\ [](stoppedInWait => readsSinceStop <= 1)
    /\ [][(stoppedInWait /\ tpc = "wait" /\ NOT_FULL \notin efWord /\ tpc' # tpc)
            => (tpc' = "top" /\ readsSinceStop' = readsSinceStop)]_vars
    /\ [][(stoppedInWait /\ tpc = "top" /\ tpc' # tpc) => tpc' = "done"]_vars
    /\ [][(stoppedInWait /\ readsSinceStop = 1) => tpc' \notin {"wait", "avail", "read"}]_vars

C2_Witness == stoppedInWait /\ tpc = "done" /\ readsSinceStop = 0

\* C3: a device read returning n >= 0 is followed, in this order, by the
\* data-queue write, which appends exactly n bytes when n fits the free space
\* (always so when the device returned no more than requested); by the
\* status-queue write, which appends exactly one record {OK, n}, the one
\* exception being a status queue the consumer has left full, where the write is
\* dropped; and by the wake of NOT_EMPTY.
C3_RoundTrip ==
    [][/\ (tpc = "writeData" /\ readResult >= 0 /\ tpc' # tpc)
            => (/\ tpc' = "writeStatus"
                /\ mStatusMQ' = mStatusMQ
                /\ efWord' = efWord
                /\ mDataMQ'.capacity = mDataMQ.capacity
                /\ mDataMQ'.used =
                      IF readResult <= mDataMQ.capacity - mDataMQ.used
                      THEN mDataMQ.used + readResult
                      ELSE mDataMQ.used
                /\ (readResult <= readBytes => mDataMQ'.used = mDataMQ.used + readResult))
       /\ (tpc = "writeStatus" /\ readResult >= 0 /\ tpc' # tpc)
            => (/\ tpc' = "wake"
                /\ mDataMQ' = mDataMQ
                /\ efWord' = efWord
                /\ mStatusMQ'.q =
                      IF Len(mStatusMQ.q) < StatusMQDepth
                      THEN Append(mStatusMQ.q, [retval |-> "OK", read |-> readResult])
                      ELSE mStatusMQ.q)
       /\ (tpc = "wake" /\ tpc' # tpc)
            => (/\ tpc' = "top"
                /\ NOT_EMPTY \in efWord'
                /\ mDataMQ' = mDataMQ
                /\ mStatusMQ' = mStatusMQ)]_vars

\* C4: a device read returning a negative code leaves the data queue unchanged,
\* and exactly one record {mapped error kind, 0} is appended to the status
\* queue, the one exception being a status queue the consumer has left full,
\* where the write is dropped.
C4_ErrorRecord ==
    [][/\ (tpc = "writeData" /\ readResult < 0 /\ tpc' # tpc)
            => (tpc' = "writeStatus" /\ mDataMQ' = mDataMQ /\ mStatusMQ' = mStatusMQ)
       /\ (tpc = "writeStatus" /\ readResult < 0 /\ tpc' # tpc)
            => (/\ tpc' = "wake"
                /\ mDataMQ' = mDataMQ
                /\ analyzeStatus(readResult) # "OK"
                /\ mStatusMQ'.q =
                      IF Len(mStatusMQ.q) < StatusMQDepth
                      THEN Append(mStatusMQ.q,
                                  [retval |-> analyzeStatus(readResult), read |-> 0])
                      ELSE mStatusMQ.q)]_vars

\* C5: prepareForReading called while a session exists returns INVALID_STATE
\* with empty descriptors and changes neither the queues, the event flag, the
\* stop flag nor the capture thread, which keeps its position.
C5_SecondPrepareRejected ==
    [][(mDataMQ # NULL /\ PrepareForReading)
          => (/\ lastCall' = "prepareForReading"
              /\ lastResult' = "INVALID_STATE"
              /\ lastDesc' = FALSE
              /\ UNCHANGED <<mIsClosed, mDataMQ, mStatusMQ, mEfGroup, efWord,
                             mStopReadThread, mReadThread, tpc, orphanThreads,
                             availToWrite, readBytes, readResult, status,
                             closeInputStreamCalls>>)]_vars

C5_Witness ==
    /\ lastCall = "prepareForReading"
    /\ lastResult = "INVALID_STATE"
    /\ mDataMQ # NULL
    /\ tpc \in ThreadAlive
    /\ ~mIsClosed

\* C6: at most one capture thread is alive for the stream in every reachable
\* state.
C6_AtMostOneThread == LiveThreads <= 1

C6_Witness ==
    /\ LiveThreads = 1
    /\ lastCall = "prepareForReading"
    /\ lastResult = "INVALID_STATE"
    /\ closeCalls > 0

\* C7: the first close() returns OK; every later close() returns INVALID_STATE
\* and neither stores to the stop flag, joins the thread, deletes the event
\* flag nor releases the device stream.
C7_CloseOnce ==
    /\ []((lastCall = "close" /\ ctl = "idle" /\ closeCalls = 1) => lastResult = "OK")
    /\ []((lastCall = "close" /\ ctl = "idle" /\ closeCalls > 1)
             => lastResult = "INVALID_STATE")
    /\ [][(closeCalls >= 1 /\ close)
             => (/\ lastCall' = "close"
                 /\ lastResult' = "INVALID_STATE"
                 /\ UNCHANGED <<mIsClosed, mStopReadThread, ctl, mEfGroup,
                                closeInputStreamCalls, mDataMQ, mStatusMQ, efWord,
                                mReadThread, threadVars>>)]_vars

C7_Witness ==
    /\ closeCalls = 2
    /\ mStopReadThread
    /\ lastCall = "close"
    /\ lastResult = "INVALID_STATE"
    /\ closeInputStreamCalls = 1

\* C8: the device read of an iteration requests exactly the value
\* availableToWrite() returned in that iteration, which is never larger than
\* the free space of the data queue when the read is called.
C8_ReadSizeWithinFreeSpace ==
    [][/\ (tpc = "avail" /\ tpc' # tpc)
            => availToWrite' = mDataMQ.capacity - mDataMQ.used
       /\ (tpc = "read" /\ tpc' # tpc)
            => (/\ readBytes' = availToWrite
                /\ readBytes' <= mDataMQ.capacity - mDataMQ.used)]_vars

\* C9: with a consumer that never drains the status queue, a status write onto
\* the full queue fails and leaves the queue as it is, yet the loop goes on: a
\* NOT_FULL wake seen while the stop flag is false leads to another device read
\* (unless the stop flag is stored first), every device read leads to another
\* wake of NOT_EMPTY, and the thread exits once the stop flag is set.
C9_NoStallOnStatusBackpressure ==
    /\ [][(mStatusMQ # NULL /\ mStatusMQ.q # <<>>) => mStatusMQ' = mStatusMQ]_vars
    /\ ((/\ tpc \in {"top", "wait"}
         /\ NOT_FULL \in efWord
         /\ ~mStopReadThread
         /\ mStatusMQ.q # <<>>) ~> (tpc = "writeData" \/ mStopReadThread))
    /\ ((tpc = "writeData" /\ mStatusMQ.q # <<>>) ~> (tpc = "top" /\ NOT_EMPTY \in efWord))
    /\ ((mStopReadThread /\ tpc \in ThreadAlive) ~> tpc = "done")

\* C10: a close() on a stream whose capture thread is running stores the stop
\* flag and waits for the thread; under fair scheduling the thread reaches the
\* stop check, leaves the loop there by itself, the join completes only after
\* that, and close returns OK.
C10_CloseTerminates ==
    /\ [][((Close \/ Destructor) /\ tpc \in ThreadAlive)
             => (mStopReadThread' /\ ctl' = "joining")]_vars
    /\ (ctl = "joining"
          ~> (/\ ctl = "idle"
              /\ lastCall = "close"
              /\ lastResult = "OK"
              /\ tpc \notin ThreadAlive))
    /\ [][(tpc \in ThreadAlive /\ tpc' \notin ThreadAlive)
             => (tpc = "top" /\ mStopReadThread /\ tpc' = "done")]_vars
    /\ [][(ctl = "joining" /\ ctl' = "idle") => tpc \notin ThreadAlive]_vars

\* C11: with no session, prepareForReading returns OK with the descriptors only
\* when both queues are valid, the event flag was created and the thread was
\* launched, and it returns OK whenever all four succeed; when a queue is
\* invalid or the event flag cannot be created it returns INVALID_ARGUMENTS with
\* empty descriptors, launches no thread and records no session.
C11_PrepareOutcome ==
    [][\A in \in FrameInputs, o \in PrepareOutcomes :
          (mDataMQ = NULL /\ prepareForReading(in[1], in[2], o[1], o[2], o[3], o[4]))
             => (/\ lastCall' = "prepareForReading"
                 /\ (lastResult' = "OK"
                       => (/\ o[1] /\ o[2] /\ o[3] /\ o[4]
                           /\ lastDesc'
                           /\ tpc' = "ready"
                           /\ mReadThread'
                           /\ mEfGroup' = "valid"
                           /\ mDataMQ' # NULL
                           /\ mStatusMQ' # NULL))
                 /\ ((o[1] /\ o[2] /\ o[3] /\ o[4]) => lastResult' = "OK")
                 /\ ((~o[1] \/ ~o[2] \/ ~o[3])
                       => (/\ lastResult' = "INVALID_ARGUMENTS"
                           /\ ~lastDesc'
                           /\ tpc' = tpc
                           /\ LiveThreads' = LiveThreads
                           /\ mReadThread' = mReadThread
                           /\ mDataMQ' = NULL
                           /\ mStatusMQ' = NULL)))]_vars

C11_Witness ==
    /\ lastCall = "prepareForReading"
    /\ lastResult = "INVALID_ARGUMENTS"
    /\ ~lastDesc
    /\ mDataMQ = NULL
    /\ ~mReadThread
    /\ tpc = "none"

\* C12: the device stream is never released twice, and once the stream object
\* has been destroyed, after any number of close() calls, it has been released
\* exactly once.
C12_ReleasedOnce ==
    /\ closeInputStreamCalls <= 1
    /\ life = "destroyed" => closeInputStreamCalls = 1

C12_Witness ==
    /\ life = "destroyed"
    /\ closeCalls = 2
    /\ lastResult = "INVALID_STATE"
    /\ closeInputStreamCalls = 1

\* C13: the capture thread reaches the device read only through a wait that
\* returned with NOT_FULL, which the wait takes out of the word; a wait that
\* returns without NOT_FULL touches neither queue nor the event flag and sends
\* the thread back to the stop check.
C13_ReadOnlyAfterNotFull ==
    [][/\ (tpc = "wait" /\ tpc' # tpc)
            => IF NOT_FULL \in efWord
               THEN tpc' = "avail" /\ efWord' = efWord \ {NOT_FULL}
               ELSE /\ tpc' = "top"
                    /\ efWord' = efWord
                    /\ mDataMQ' = mDataMQ
                    /\ mStatusMQ' = mStatusMQ
       /\ (tpc' = "avail" /\ tpc # "avail")
            => (tpc = "wait" /\ NOT_FULL \in efWord /\ NOT_FULL \notin efWord')
       /\ (tpc' = "read" /\ tpc # "read") => tpc = "avail"
       /\ (tpc' = "writeData" /\ tpc # "writeData") => tpc = "read"]_vars

\* C14: after every device read, whatever it returned and whether or not the
\* data-queue write and the status-queue write succeed, the thread goes through
\* both writes to the wake of NOT_EMPTY, wakes it once, and only then is back
\* at the stop check; under fair scheduling it gets there.
C14_WakeAfterEveryRead ==
    /\ [][/\ (tpc = "writeData" /\ tpc' # tpc) => (tpc' = "writeStatus" /\ efWord' = efWord)
          /\ (tpc = "writeStatus" /\ tpc' # tpc) => (tpc' = "wake" /\ efWord' = efWord)
          /\ (tpc = "wake" /\ tpc' # tpc)
               => (tpc' = "top" /\ efWord' = efWord \cup {NOT_EMPTY})]_vars
    /\ (tpc = "writeData" ~> (tpc = "top" /\ NOT_EMPTY \in efWord))

\* C15: the event flag the stream holds is never left alive once the data
\* queue whose wake-word it was created from has been destroyed.
C15_EventFlagWithinQueueLife ==
    /\ mEfGroup # "dangling"
    /\ mEfGroup = "valid" => (mDataMQ # NULL /\ life # "destroyed")

\* C16: the stop flag starts false and, once true, stays true through every
\* step of prepareForReading, close and the capture loop.
C16_StopFlagNeverReset ==
    /\ ~mStopReadThread
    /\ [][mStopReadThread => mStopReadThread']_vars

C16_Witness ==
    /\ mStopReadThread
    /\ lastCall = "prepareForReading"
    /\ lastResult = "OK"
    /\ tpc = "done"

\* C17: the capacity requested for the data queue is the mathematical product
\* frameSize * framesCount: divided by framesCount it gives frameSize, with no
\* remainder.
C17_CapacityIsProduct ==
    [][\A in \in FrameInputs :
          (mDataMQ = NULL /\ prepareForReading(in[1], in[2], TRUE, TRUE, TRUE, TRUE))
             => (/\ mDataMQ'.capacity \div in[2] = in[1]
                 /\ mDataMQ'.capacity % in[2] = 0)]_vars

\* C18: no device read is issued once close() has released the device stream,
\* and no capture thread is launched on a closed stream.
C18_NoReadOnReleasedStream ==
    [][/\ (tpc = "read" /\ tpc' # tpc) => closeInputStreamCalls = 0
       /\ (tpc # "ready" /\ tpc' = "ready") => ~mIsClosed]_vars

\* C19: when the device returns no more bytes than requested, the bytes fit the
\* free space of the data queue at the write, whatever the consumer did since
\* availableToWrite(), and the write appends them.
C19_DataWriteSucceeds ==
    /\ []((tpc = "writeData" /\ readResult >= 0 /\ readResult <= readBytes)
             => readResult <= mDataMQ.capacity - mDataMQ.used)
    /\ [][(tpc = "writeData" /\ readResult >= 0 /\ readResult <= readBytes /\ tpc' # tpc)
             => mDataMQ'.used = mDataMQ.used + readResult]_vars

\* The bytes announced by the OK records of a sequence of status records.
RECURSIVE AnnouncedBytes(_)
AnnouncedBytes(q) ==
    IF q = <<>>
    THEN 0
    ELSE (IF Head(q).retval = "OK" THEN Head(q).read ELSE 0) + AnnouncedBytes(Tail(q))

\* C20: the byte counts of the OK status records the capture thread has
\* enqueued never add up to more than the bytes it has enqueued in the data
\* queue.  With a consumer that never reads the data queue the bytes in the
\* data queue are that total, and the OK records still in the status queue are
\* among the records enqueued, so their counts stay within it.
C20_AnnouncedWithinEnqueued ==
    (mDataMQ # NULL /\ mStatusMQ # NULL) => AnnouncedBytes(mStatusMQ.q) <= mDataMQ.used
====
